---- MODULE Spec2Model ----
(***************************************************************************)
(* Model of the dashboard of arrival-resources-web (DashboardPage in       *)
(* src/components/Header.tsx): the initial data load with tag              *)
(* canonicalization, the place identity key, the filter / deduplication /  *)
(* viewport derivations, the map projection and the selection state.       *)
(*                                                                         *)
(* Strings are sequences of one-character strings, so that trim,           *)
(* lower-casing, substring search and replacement are computed as          *)
(* String.prototype does.  "nbsp" stands for U+00A0 and "zw" for U+200B.   *)
(* A nullable string is either a string or NullStr; a JSON number field is *)
(* a record [kind, val] with kind "num", "null" (JSON null) or "absent"    *)
(* (the property is missing, undefined in JavaScript).                     *)
(*                                                                         *)
(* Spec is the dashboard over datasets of the place universe.  The other   *)
(* specifications start the same component on the inputs one part of it    *)
(* depends on: SpecKey (identity keys), SpecCanon (tag canonicalizer),      *)
(* SpecCategory (category colors and icons), SpecCounts (category counts), *)
(* SpecSearch (name search), SpecView (camera and animation frames),       *)
(* SpecClip (popup boxes), SpecLayout (sidebar width and legend),          *)
(* SpecSelect (records that share a key) and SpecGeocoding (address        *)
(* search).  SpecFeedback is the feedback form of                          *)
(* src/app/feedback/page.tsx with the answers of its route.  Zoom levels   *)
(* are counted in half levels, as the initial zoom is 9.5.                 *)
(***************************************************************************)
EXTENDS Integers, Sequences, FiniteSets, TLC

VARIABLES
    placesFetch,     \* state of fetch("/data/places_public.json")
    tagsFetch,       \* state of fetch("/data/tags.json")
    placesData,      \* body of the places response (raw records)
    tagsData,        \* body of the tags response (the taxonomy)
    loadPc,          \* position of load(): "await", "done" or "failed"
    places,          \* useState<Place[]>
    tagGuide,        \* useState<TagGuide[]>
    loading,         \* useState(true)
    queryInput,      \* live search input
    query,           \* applied query
    selectedTags,    \* useState<string[]>
    activePlaceId,   \* useState<string | null>
    viewMode,        \* "map" | "list"
    mapBounds,       \* viewport bounds or NoBounds
    hasMapboxToken,  \* NEXT_PUBLIC_MAPBOX_TOKEN is set
    mapZoom,         \* zoom of the map camera, in half levels (19 is zoom 9.5)
    mapCmd,          \* last camera command given to the map through mapRef
    rafStage,        \* frames requested by the popup effect: "none", "raf1", "raf2"
    framesElapsed,   \* animation frames since the popup effect last ran (history)
    clipRuns,        \* measurements made for the current active place (history)
    popupRect,       \* getBoundingClientRect() of the popup element
    containerRect,   \* getBoundingClientRect() of the map container
    isMobile,        \* useIsMobile()
    sidebarWidth,    \* useState<number>
    resizeState,     \* useRef({dragging, startX, startWidth})
    storedWidth,     \* localStorage item "arrival_sidebar_width"
    errorLogged,     \* console.error was called by the catch of load()
    legendOpen,      \* useState(!isMobile)
    nearQuery,       \* text of the address / ZIP input
    nearError,       \* useState<string | null>, the inline geocoding message
    nearLoading,     \* useState(false)
    geoPending,      \* geocoding requests in flight, in the order of issue
    geoIssued,       \* number of geocoding requests issued so far
    formData,        \* feedback form: category, name, email, comment
    isSubmitting,    \* feedback form: useState(false)
    showSuccessDialog, \* feedback form: useState(false)
    error,           \* feedback form: useState<string | null>
    feedbackFetch    \* fetch("/api/feedback"): "idle" or "pending"

vars == <<placesFetch, tagsFetch, placesData, tagsData, loadPc, places, tagGuide,
          loading, queryInput, query, selectedTags, activePlaceId, viewMode,
          mapBounds, hasMapboxToken, mapZoom, mapCmd, rafStage, framesElapsed,
          clipRuns, popupRect, containerRect, isMobile, sidebarWidth, resizeState,
          storedWidth, errorLogged, legendOpen, nearQuery, nearError, nearLoading,
          geoPending, geoIssued, formData, isSubmitting, showSuccessDialog, error,
          feedbackFetch>>

camVars == <<mapZoom, mapCmd>>

domVars == <<popupRect, containerRect>>

clipVars == <<rafStage, framesElapsed, clipRuns, domVars>>

layoutVars == <<isMobile, sidebarWidth, resizeState, storedWidth>>

geoVars == <<nearQuery, nearError, nearLoading, geoPending, geoIssued>>

feedbackVars == <<formData, isSubmitting, showSuccessDialog, error, feedbackFetch>>

\* what the handlers of the place data, the filters and the map leave alone
panelVars == <<errorLogged, legendOpen, geoVars, feedbackVars>>

dataVars == <<placesFetch, tagsFetch, placesData, tagsData, loadPc, places,
              tagGuide, loading>>

uiVars == <<queryInput, query, selectedTags, activePlaceId, viewMode, mapBounds>>

----------------------------------------------------------------------------
(* JavaScript values *)

NullStr == <<"NULL">>

JsNull == [kind |-> "null", val |-> 0]

Absent == [kind |-> "absent", val |-> 0]

Num(v) == [kind |-> "num", val |-> v]

NoBounds == [known |-> FALSE, west |-> 0, south |-> 0, east |-> 0, north |-> 0]

Bounds(w, s, e, n) == [known |-> TRUE, west |-> w, south |-> s, east |-> e, north |-> n]

\* (x || "").toString()
OrEmpty(x) == IF x = NullStr THEN <<>> ELSE x

\* a || b on nullable strings: a when it is truthy (a non-empty string)
OrStr(a, b) == IF a = NullStr \/ a = <<>> THEN b ELSE a

\* a ?? b on nullable strings
Nullish(a, b) == IF a = NullStr THEN b ELSE a

----------------------------------------------------------------------------
(* String.prototype *)

UpperCase == <<"A", "B", "C", "D", "E", "F", "G", "H", "I", "J", "K", "L", "M",
               "N", "O", "P", "Q", "R", "S", "T", "U", "V", "W", "X", "Y", "Z">>

LowerCase == <<"a", "b", "c", "d", "e", "f", "g", "h", "i", "j", "k", "l", "m",
               "n", "o", "p", "q", "r", "s", "t", "u", "v", "w", "x", "y", "z">>

LowerChar(c) ==
    IF \E i \in DOMAIN UpperCase : UpperCase[i] = c
    THEN LowerCase[CHOOSE i \in DOMAIN UpperCase : UpperCase[i] = c]
    ELSE c

\* the characters \s matches and trim() strips
IsSpace(c) == c \in {" ", "nbsp"}

RECURSIVE toLowerCase(_)
toLowerCase(s) ==
    IF s = <<>> THEN <<>> ELSE <<LowerChar(Head(s))>> \o toLowerCase(Tail(s))

RECURSIVE trimStart(_)
trimStart(s) ==
    IF s # <<>> /\ IsSpace(Head(s)) THEN trimStart(Tail(s)) ELSE s

RECURSIVE trimEnd(_)
trimEnd(s) ==
    IF s # <<>> /\ IsSpace(s[Len(s)]) THEN trimEnd(SubSeq(s, 1, Len(s) - 1)) ELSE s

trim(s) == trimEnd(trimStart(s))

\* hay.includes(needle)
includes(hay, needle) ==
    \E i \in 0..(Len(hay) - Len(needle)) : SubSeq(hay, i + 1, i + Len(needle)) = needle

\* s.replace(/c/g, to) for a single character c
RECURSIVE replaceChar(_, _, _)
replaceChar(s, c, to) ==
    IF s = <<>> THEN <<>>
    ELSE (IF Head(s) = c THEN to ELSE <<Head(s)>>) \o replaceChar(Tail(s), c, to)

\* s.replace(/[\u200B-\u200D\uFEFF]/g, "")
RECURSIVE stripZeroWidth(_)
stripZeroWidth(s) ==
    IF s = <<>> THEN <<>>
    ELSE (IF Head(s) = "zw" THEN <<>> ELSE <<Head(s)>>) \o stripZeroWidth(Tail(s))

\* s with its leading characters of the set cs removed
RECURSIVE dropLeading(_, _)
dropLeading(s, cs) ==
    IF s # <<>> /\ Head(s) \in cs THEN dropLeading(Tail(s), cs) ELSE s

\* s.replace(/[cs]+/g, to): every maximal run of characters of cs becomes one `to`
RECURSIVE replaceRuns(_, _, _)
replaceRuns(s, cs, to) ==
    IF s = <<>> THEN <<>>
    ELSE IF Head(s) \in cs
         THEN to \o replaceRuns(dropLeading(s, cs), cs, to)
         ELSE <<Head(s)>> \o replaceRuns(Tail(s), cs, to)

\* s.replace(/\s+/g, to)
replaceSpaceRuns(s, to) == replaceRuns(s, {" ", "nbsp"}, to)

\* s.startsWith(t), s.endsWith(t)
startsWith(s, t) == Len(t) <= Len(s) /\ SubSeq(s, 1, Len(t)) = t

endsWith(s, t) == Len(t) <= Len(s) /\ SubSeq(s, Len(s) - Len(t) + 1, Len(s)) = t

----------------------------------------------------------------------------
(* Module-level helpers of Header.tsx *)

\* Number(n) is 0 for null and NaN for undefined
safeNum(n) ==
    IF n.kind = "num" THEN n
    ELSE IF n.kind = "null" THEN Num(0)
    ELSE JsNull

KeySep == <<"_", "_">>

placeKey(p) ==
    LET pid    == trim(OrEmpty(OrStr(p.id, p.place_id)))
        org    == trim(OrEmpty(p.organization))
        office == trim(OrEmpty(p.office))
        addr   == trim(OrEmpty(p.address))
    IN IF pid # <<>>
       THEN pid \o KeySep \o OrStr(office, org) \o KeySep \o addr
       ELSE org \o KeySep \o office \o KeySep \o addr

\* a normalization whose first replace knows white space only
normalizeCategorySpacesOnly(category) ==
    replaceRuns(replaceRuns(trim(toLowerCase(OrEmpty(category))),
                            {" ", "nbsp"}, <<"_">>),
                {"_"}, <<"_">>)

\* the category, lower-cased, trimmed, separators collapsed to one underscore
normalizeCategory(category) ==
    replaceRuns(replaceRuns(trim(toLowerCase(OrEmpty(category))),
                            {" ", "nbsp", "-"}, <<"_">>),
                {"_"}, <<"_">>)

categoryColor(category) ==
    LET c == normalizeCategory(category)
    IN IF includes(c, <<"l","i","b","r","a","r","y">>) THEN "#2CA3E0"
       ELSE IF \/ includes(c, <<"f","o","o","d","_","a","c","c","e","s","s">>)
               \/ c = <<"f","o","o","d">>
               \/ startsWith(c, <<"f","o","o","d","_">>)
               \/ endsWith(c, <<"_","f","o","o","d">>) THEN "#2563EB"
       ELSE IF \/ includes(c, <<"g","o","v","e","r","n","m","e","n","t">>)
               \/ includes(c, <<"c","i","t","y">>)
               \/ includes(c, <<"s","t","a","t","e">>) THEN "#99c24d"
       ELSE IF \/ includes(c, <<"e","d","u","c","a","t","i","o","n">>)
               \/ includes(c, <<"a","d","u","l","t">>) THEN "#E11D48"
       ELSE IF \/ includes(c, <<"c","o","m","m","u","n","i","t","y">>)
               \/ includes(c, <<"n","o","n","p","r","o","f","i","t">>)
               \/ includes(c, <<"o","r","g","a","n","i","z","a","t","i","o","n">>)
            THEN "#0F766E"
       ELSE "#111827"

\* the emoji are written by their Unicode names
categoryIcon(category) ==
    LET c == normalizeCategory(category)
    IN IF includes(c, <<"l","i","b","r","a","r","y">>) THEN "books"
       ELSE IF \/ includes(c, <<"f","o","o","d","_","a","c","c","e","s","s">>)
               \/ c = <<"f","o","o","d">>
               \/ startsWith(c, <<"f","o","o","d","_">>)
               \/ endsWith(c, <<"_","f","o","o","d">>) THEN "canned food"
       ELSE IF \/ includes(c, <<"g","o","v","e","r","n","m","e","n","t">>)
               \/ includes(c, <<"c","i","t","y">>)
               \/ includes(c, <<"s","t","a","t","e">>) THEN "classical building"
       ELSE IF \/ includes(c, <<"e","d","u","c","a","t","i","o","n">>)
               \/ includes(c, <<"a","d","u","l","t">>) THEN "graduation cap"
       ELSE IF \/ includes(c, <<"c","o","m","m","u","n","i","t","y">>)
               \/ includes(c, <<"n","o","n","p","r","o","f","i","t">>)
               \/ includes(c, <<"o","r","g","a","n","i","z","a","t","i","o","n">>)
            THEN "handshake"
       ELSE "round pushpin"

----------------------------------------------------------------------------
(* load(): the tag canonicalizer *)

\* Map.prototype.set / get; a missing key reads as undefined (NullStr)
EmptyMap == [k \in {} |-> NullStr]

MapSet(m, k, v) == [x \in (DOMAIN m) \cup {k} |-> IF x = k THEN v ELSE m[x]]

MapGet(m, k) == IF k \in DOMAIN m THEN m[k] ELSE NullStr

normalizeTagKey(input) ==
    replaceSpaceRuns(
        toLowerCase(trim(stripZeroWidth(replaceChar(OrEmpty(input), "nbsp", <<" ">>)))),
        <<" ">>)

\* one iteration of `for (const tg of tagsData)`
addTagDef(maps, tg) ==
    LET canonical == trim(OrEmpty(tg.tag))
        tl1 == MapSet(maps.tagLowerToTag, normalizeTagKey(canonical), canonical)
        tl2 == MapSet(tl1, normalizeTagKey(replaceChar(canonical, "_", <<" ">>)), canonical)
        dn  == trim(OrEmpty(tg.display_name))
        d1  == MapSet(maps.displayToTag, normalizeTagKey(dn), canonical)
        d2  == MapSet(d1, normalizeTagKey(replaceChar(dn, "_", <<" ">>)), canonical)
        d3  == MapSet(d2, normalizeTagKey(replaceSpaceRuns(dn, <<"_">>)), canonical)
    IN IF canonical = <<>> THEN maps
       ELSE [displayToTag  |-> IF OrStr(tg.display_name, <<>>) # <<>> THEN d3
                               ELSE maps.displayToTag,
             tagLowerToTag |-> tl2]

RECURSIVE buildMaps(_, _)
buildMaps(tags, maps) ==
    IF tags = <<>> THEN maps ELSE buildMaps(Tail(tags), addTagDef(maps, Head(tags)))

tagMaps(tags) == buildMaps(tags, [displayToTag |-> EmptyMap, tagLowerToTag |-> EmptyMap])

\* mutant of canonicalizeTag: a tag found in neither table is dropped
canonicalizeTagOrDrop(raw, maps) ==
    LET key == normalizeTagKey(replaceChar(OrEmpty(raw), "nbsp", <<" ">>))
    IN IF key = <<>> THEN <<>>
       ELSE OrStr(MapGet(maps.displayToTag, key),
                  OrStr(MapGet(maps.tagLowerToTag, key), <<>>))

canonicalizeTag(raw, maps) ==
    LET cleaned == replaceChar(OrEmpty(raw), "nbsp", <<" ">>)
        key     == normalizeTagKey(cleaned)
    IN IF key = <<>> THEN <<>>
       ELSE OrStr(MapGet(maps.displayToTag, key),
                  OrStr(MapGet(maps.tagLowerToTag, key),
                        replaceSpaceRuns(key, <<"_">>)))

\* p.service_tags.map((t) => canonicalizeTag(t)).filter((t) => t)
RECURSIVE canonicalizeTags(_, _)
canonicalizeTags(tags, maps) ==
    IF tags = <<>> THEN <<>>
    ELSE LET t == canonicalizeTag(Head(tags), maps)
         IN (IF t = <<>> THEN <<>> ELSE <<t>>) \o canonicalizeTags(Tail(tags), maps)

\* for (const p of placesData) p.service_tags = ...
RECURSIVE canonicalizePlaces(_, _)
canonicalizePlaces(ps, maps) ==
    IF ps = <<>> THEN <<>>
    ELSE <<[Head(ps) EXCEPT !.service_tags = canonicalizeTags(@, maps)]>>
         \o canonicalizePlaces(Tail(ps), maps)

----------------------------------------------------------------------------
(* Derived values of DashboardPage (useMemo) *)

Range(s) == {s[i] : i \in DOMAIN s}

\* mutant of appliedQuery: the query is lower-cased but not trimmed
appliedQueryUntrimmed == toLowerCase(query)

\* const q = query.trim().toLowerCase()
appliedQuery == toLowerCase(trim(query))

\* `${org} ${office}`.toLowerCase()
haystack(p) ==
    LET org    == Nullish(Nullish(p.organization, p.organisation), <<>>)
        office == Nullish(p.office, <<>>)
    IN toLowerCase(org \o <<" ">> \o office)

matchText(p, q) == q = <<>> \/ includes(haystack(p), q)

\* mutant of matchTags: some() instead of every()
matchTagsAny(p, sel) ==
    Len(sel) = 0 \/ \E i \in DOMAIN sel : \E j \in DOMAIN p.service_tags : p.service_tags[j] = sel[i]

matchTags(p, sel) ==
    Len(sel) = 0 \/ \A i \in DOMAIN sel : \E j \in DOMAIN p.service_tags : p.service_tags[j] = sel[i]

filtered ==
    LET keep(p) == matchText(p, appliedQuery) /\ matchTags(p, selectedTags)
    IN SelectSeq(places, keep)

\* mutant of uniqueByKey: the `seen` test is missing
uniqueByKeyKeepAll(ps, seen) == ps

\* mutant of uniqueByKey: a later record replaces the earlier one of its key
RECURSIVE uniqueByKeyLast(_, _)
uniqueByKeyLast(ps, seen) ==
    IF ps = <<>> THEN <<>>
    ELSE IF \E i \in DOMAIN Tail(ps) : placeKey(Tail(ps)[i]) = placeKey(Head(ps))
         THEN uniqueByKeyLast(Tail(ps), seen)
         ELSE <<Head(ps)>> \o uniqueByKeyLast(Tail(ps), seen)

\* the loop of filteredUnique: keep p unless its key was seen
RECURSIVE uniqueByKey(_, _)
uniqueByKey(ps, seen) ==
    IF ps = <<>> THEN <<>>
    ELSE LET k == placeKey(Head(ps))
         IN IF k \in seen THEN uniqueByKey(Tail(ps), seen)
            ELSE <<Head(ps)>> \o uniqueByKey(Tail(ps), seen \cup {k})

filteredUnique == uniqueByKey(filtered, {})

\* mutant of inBounds: the rectangle is open
inBoundsExclusive(p, b) ==
    LET lat == safeNum(p.lat)
        lng == safeNum(p.lng)
    IN IF lat.kind = "null" \/ lng.kind = "null" THEN FALSE
       ELSE /\ lng.val > b.west /\ lng.val < b.east
            /\ lat.val > b.south /\ lat.val < b.north

inBounds(p, b) ==
    LET lat == safeNum(p.lat)
        lng == safeNum(p.lng)
    IN IF lat.kind = "null" \/ lng.kind = "null" THEN FALSE
       ELSE /\ lng.val >= b.west /\ lng.val <= b.east
            /\ lat.val >= b.south /\ lat.val <= b.north

\* mutant of placesInView: the view mode is not consulted
placesInViewAnyMode ==
    IF ~mapBounds.known THEN filteredUnique
    ELSE LET keep(p) == inBounds(p, mapBounds)
         IN SelectSeq(filteredUnique, keep)

placesInView ==
    IF viewMode # "map" \/ ~mapBounds.known THEN filteredUnique
    ELSE LET keep(p) == inBounds(p, mapBounds)
         IN SelectSeq(filteredUnique, keep)

Uncategorized == <<"U","n","c","a","t","e","g","o","r","i","z","e","d">>

\* the entries [category, n] of a Map, in insertion order
RECURSIVE mapEntryIndex(_, _)
mapEntryIndex(entries, key) ==
    IF entries = <<>> THEN 0
    ELSE IF Head(entries)[1] = key THEN 1
    ELSE LET i == mapEntryIndex(Tail(entries), key)
         IN IF i = 0 THEN 0 ELSE i + 1

\* m.set(key, (m.get(key) || 0) + 1) for every place of ps, in order
RECURSIVE countInto(_, _)
countInto(ps, entries) ==
    IF ps = <<>> THEN entries
    ELSE LET key == OrStr(Head(ps).category, Uncategorized)
             i   == mapEntryIndex(entries, key)
         IN countInto(Tail(ps),
                      IF i = 0 THEN Append(entries, <<key, 1>>)
                      ELSE [entries EXCEPT ![i] = <<key, entries[i][2] + 1>>])

\* e put behind the last entry of the sorted list whose count is not smaller
RECURSIVE insertByCount(_, _)
insertByCount(sorted, e) ==
    IF sorted = <<>> THEN <<e>>
    ELSE IF Head(sorted)[2] >= e[2] THEN <<Head(sorted)>> \o insertByCount(Tail(sorted), e)
    ELSE <<e>> \o sorted

\* entries left in insertion order
sortByCountMissing(entries) == entries

\* entries.sort((a, b) => b[1] - a[1]); Array.prototype.sort is stable
RECURSIVE sortByCount(_)
sortByCount(entries) ==
    IF entries = <<>> THEN <<>>
    ELSE insertByCount(sortByCount(SubSeq(entries, 1, Len(entries) - 1)),
                       entries[Len(entries)])

countsByCategory == sortByCount(countInto(placesInView, <<>>))

\* the elements of allTags (the tag chips), without their display order
allTags == UNION {Range(placesInView[i].service_tags) : i \in DOMAIN placesInView}

mappable(p) == safeNum(p.lat).kind # "null" /\ safeNum(p.lng).kind # "null"

feature(p) ==
    [coordinates |-> <<safeNum(p.lng).val, safeNum(p.lat).val>>,
     pid         |-> placeKey(p),
     category    |-> OrEmpty(p.category),
     color       |-> categoryColor(OrEmpty(p.category))]

RECURSIVE features(_)
features(ps) ==
    IF ps = <<>> THEN <<>>
    ELSE (IF mappable(Head(ps)) THEN <<feature(Head(ps))>> ELSE <<>>) \o features(Tail(ps))

\* placesGeoJSON.features
placesGeoJSON == features(filteredUnique)

\* index in places of places.find((p) => placeKey(p) === activePlaceId), 0 for null
activePlace ==
    IF activePlaceId = NullStr \/ activePlaceId = <<>> THEN 0
    ELSE IF \E i \in DOMAIN places : placeKey(places[i]) = activePlaceId
         THEN CHOOSE i \in DOMAIN places :
                  /\ placeKey(places[i]) = activePlaceId
                  /\ \A j \in 1..(i - 1) : placeKey(places[j]) # activePlaceId
         ELSE 0

\* <MapGL> is mounted
mapShown == viewMode = "map" /\ hasMapboxToken

\* <Popup> is rendered
popupShown == mapShown /\ activePlace # 0 /\ mappable(places[activePlace])

----------------------------------------------------------------------------
(* The map camera and the popup-clipping effect *)

\* camera commands given through mapRef; x, y are a center or a pixel offset
NoCmd == [kind |-> "none", x |-> 0, y |-> 0, zoom |-> 0]

flyTo(lng, lat, zoom) == [kind |-> "flyTo", x |-> lng, y |-> lat, zoom |-> zoom]

easeTo(lng, lat, zoom) == [kind |-> "easeTo", x |-> lng, y |-> lat, zoom |-> zoom]

panBy(x, y) == [kind |-> "panBy", x |-> x, y |-> y, zoom |-> 0]

Min(a, b) == IF a < b THEN a ELSE b

Max(a, b) == IF a > b THEN a ELSE b

Rect(l, t, r, b) == [left |-> l, top |-> t, right |-> r, bottom |-> b]

\* const pad = 12
pad == 12

\* the default of clamp's parameter lim
lim == 240

\* a guardrail that lets every pan through
clampNone(v) == v

\* clamp = (v, lim = 240) => Math.max(-lim, Math.min(lim, v))
clamp(v) == Max(0 - lim, Min(lim, v))

\* dx and dy of the second frame callback: of two tests on one axis the
\* later assignment wins, then both are clamped
clipCorrection(cRect, pRect) ==
    LET dx == IF pRect.right > cRect.right - pad THEN (cRect.right - pad) - pRect.right
              ELSE IF pRect.left < cRect.left + pad THEN (cRect.left + pad) - pRect.left
              ELSE 0
        dy == IF pRect.bottom > cRect.bottom - pad THEN (cRect.bottom - pad) - pRect.bottom
              ELSE IF pRect.top < cRect.top + pad THEN (cRect.top + pad) - pRect.top
              ELSE 0
    IN [dx |-> clamp(dx), dy |-> clamp(dy)]

\* an effect whose first frame callback measures at once
popupClipEffectOneFrame ==
    IF activePlaceId' = activePlaceId /\ places' = places /\ viewMode' = viewMode
    THEN UNCHANGED <<rafStage, framesElapsed, clipRuns>>
    ELSE /\ rafStage' = IF viewMode' = "map" /\ activePlaceId' # NullStr THEN "raf2" ELSE "none"
         /\ framesElapsed' = 0
         /\ clipRuns' = IF activePlaceId' = activePlaceId THEN clipRuns ELSE 0

\* the guards of the effect body, in the state after the render
popupEffectArmed ==
    /\ viewMode = "map"
    /\ activePlaceId # NullStr
    /\ activePlace # 0
    /\ mappable(places[activePlace])

\* useEffect(..., [activePlaceId, activePlace, viewMode]) after a handler:
\* when a dependency changed the cleanup cancels the requested frames and the
\* body requests the first frame if its guards pass
popupClipEffect ==
    IF activePlaceId' = activePlaceId /\ places' = places /\ viewMode' = viewMode
    THEN UNCHANGED <<rafStage, framesElapsed, clipRuns>>
    ELSE /\ rafStage' = IF popupEffectArmed' THEN "raf1" ELSE "none"
         /\ framesElapsed' = 0
         /\ clipRuns' = IF activePlaceId' = activePlaceId THEN clipRuns ELSE 0

----------------------------------------------------------------------------
(* Bounds and input sets *)

MaxPlaces == 2

SeqsUpTo(S, n) == UNION {[1..k -> S] : k \in 0..n}

Place(id, org, office, addr, lat, lng, cat, tags) ==
    [id |-> id, place_id |-> NullStr, organization |-> org, organisation |-> NullStr,
     office |-> office, address |-> addr, lat |-> lat, lng |-> lng,
     category |-> cat, service_tags |-> tags]

\* the taxonomy served by /data/tags.json in the dashboard specification
DashboardTags ==
    << [tag |-> <<"t", "_", "a">>, display_name |-> <<"T", " ", "a">>],
       [tag |-> <<"b">>,           display_name |-> NullStr] >>

\* records /data/places_public.json is drawn from in the dashboard specification
DashboardPlaces ==
    { Place(<<"x">>, <<"A", "b">>, <<"c", "D">>, <<"m">>, Num(1), Num(1),
            <<"L", "i", "b", "r", "a", "r", "y">>, << <<"T", " ", "a">>, <<"B">> >>),
      Place(<<"x">>, <<"A", "b">>, <<"c", "D">>, <<"m">>, Num(3), Num(1),
            <<>>, << <<"t", "_", "a">> >>),
      Place(NullStr, <<"A", "b">>, <<>>, <<"m">>, JsNull, Num(1),
            <<"F", "o", "o", "d", "-", "A", "c", "c", "e", "s", "s">>, << <<"T", " ", "a">> >>),
      [Place(NullStr, NullStr, <<"c">>, <<"n">>, Num(2), Absent, NullStr, <<>>)
            EXCEPT !.organisation = <<"E", " ", "b">>],
      Place(NullStr, <<"b", "c">>, NullStr, <<"n">>, Num(2), Num(2),
            <<"f", "o", "o", "d", " ", "a", "c", "c", "e", "s", "s">>, << <<"B">> >>) }

\* values typed into the name search
QueryInputs == { <<>>, <<" ", "B", " ", "C">>, <<"b", "c">> }

\* rectangles the map reports from getBounds()
BoundsChoices == { Bounds(0, 0, 1, 1), Bounds(1, 1, 2, 3) }

----------------------------------------------------------------------------
(* Initial state: the component is mounted and load() awaits both fetches *)

InitUi ==
    /\ queryInput = <<>>
    /\ query = <<>>
    /\ selectedTags = <<>>
    /\ activePlaceId = NullStr
    /\ viewMode = "map"
    /\ mapBounds = NoBounds

InitLoad ==
    /\ placesFetch = "pending"
    /\ tagsFetch = "pending"
    /\ loadPc = "await"
    /\ places = <<>>
    /\ tagGuide = <<>>
    /\ loading = TRUE

\* zoom: 9.5 of initialViewState, in half levels
initialZoom == 19

InitCamera ==
    /\ mapZoom = initialZoom
    /\ mapCmd = NoCmd

InitPopupEffect ==
    /\ rafStage = "none"
    /\ framesElapsed = 0
    /\ clipRuns = 0

\* the bounds and the default of the sidebar width
minSidebarWidth == 260

maxSidebarWidth == 520

defaultSidebarWidth == 360

\* Number(raw) of text that is no number
NotANumber == [kind |-> "nan", val |-> 0]

\* Number("Infinity")
Infinite == [kind |-> "inf", val |-> 0]

\* Number(raw) for the stored item: getItem gives null for a missing item and
\* Number(null) is 0
Number(raw) == IF raw.kind = "null" THEN Num(0) ELSE raw

\* an initializer that takes every stored number
initialSidebarWidthUnchecked(raw) ==
    LET v == Number(raw)
    IN IF v.kind = "num" THEN v.val ELSE defaultSidebarWidth

\* the initializer of useState<number> for sidebarWidth
initialSidebarWidth(raw) ==
    LET v == Number(raw)
    IN IF v.kind = "num" /\ v.val >= minSidebarWidth /\ v.val <= maxSidebarWidth
       THEN v.val
       ELSE defaultSidebarWidth

\* useState(false) of useIsMobile, the width with nothing stored, and the
\* initial value of the resizeState ref
InitLayoutDefault ==
    /\ isMobile = FALSE
    /\ storedWidth = JsNull
    /\ sidebarWidth = initialSidebarWidth(storedWidth)
    /\ resizeState = [dragging |-> FALSE, startX |-> 0, startWidth |-> defaultSidebarWidth]

\* a popup that lies inside its container
InitDomDefault ==
    /\ containerRect = Rect(0, 0, 600, 400)
    /\ popupRect = Rect(100, 100, 300, 240)

\* nothing logged, the legend of the first render, an empty address search
\* and an empty feedback form
InitLog == errorLogged = FALSE

InitLegend == legendOpen = TRUE

InitGeo ==
    /\ nearQuery = <<>>
    /\ nearError = NullStr
    /\ nearLoading = FALSE
    /\ geoPending = <<>>
    /\ geoIssued = 0

InitFeedback ==
    /\ formData = [category |-> <<>>, name |-> <<>>, email |-> <<>>, comment |-> <<>>]
    /\ isSubmitting = FALSE
    /\ showSuccessDialog = FALSE
    /\ error = NullStr
    /\ feedbackFetch = "idle"

InitPanels ==
    /\ InitLog
    /\ InitLegend
    /\ InitGeo
    /\ InitFeedback

Init ==
    /\ InitLoad
    /\ InitUi
    /\ InitCamera
    /\ InitPopupEffect
    /\ InitPanels
    /\ InitLayoutDefault
    /\ InitDomDefault
    /\ placesData \in SeqsUpTo(DashboardPlaces, MaxPlaces)
    /\ tagsData = DashboardTags
    /\ hasMapboxToken \in BOOLEAN

----------------------------------------------------------------------------
(* load() *)

PlacesFetchResolve ==
    /\ placesFetch = "pending"
    /\ placesFetch' = "ok"
    /\ UNCHANGED <<tagsFetch, placesData, tagsData, loadPc, places, tagGuide, loading,
                   uiVars, hasMapboxToken, camVars, clipVars,
                   layoutVars, panelVars>>

TagsFetchResolve ==
    /\ tagsFetch = "pending"
    /\ tagsFetch' = "ok"
    /\ UNCHANGED <<placesFetch, placesData, tagsData, loadPc, places, tagGuide, loading,
                   uiVars, hasMapboxToken, camVars, clipVars,
                   layoutVars, panelVars>>

PlacesFetchReject ==
    /\ placesFetch = "pending"
    /\ placesFetch' = "rejected"
    /\ UNCHANGED <<tagsFetch, placesData, tagsData, loadPc, places, tagGuide, loading,
                   uiVars, hasMapboxToken, camVars, clipVars,
                   layoutVars, panelVars>>

TagsFetchReject ==
    /\ tagsFetch = "pending"
    /\ tagsFetch' = "rejected"
    /\ UNCHANGED <<placesFetch, placesData, tagsData, loadPc, places, tagGuide, loading,
                   uiVars, hasMapboxToken, camVars, clipVars,
                   layoutVars, panelVars>>

\* a load that publishes the records as they were fetched
LoadFinishRaw ==
    /\ loadPc = "await"
    /\ placesFetch = "ok"
    /\ tagsFetch = "ok"
    /\ places' = placesData
    /\ tagGuide' = tagsData
    /\ loading' = FALSE
    /\ loadPc' = "done"
    /\ UNCHANGED <<placesFetch, tagsFetch, placesData, tagsData, uiVars, hasMapboxToken, camVars, domVars,
                   layoutVars, panelVars>>
    /\ popupClipEffect

\* both responses arrived and parsed: canonicalize, then publish
LoadFinish ==
    /\ loadPc = "await"
    /\ placesFetch = "ok"
    /\ tagsFetch = "ok"
    /\ places' = canonicalizePlaces(placesData, tagMaps(tagsData))
    /\ tagGuide' = tagsData
    /\ loading' = FALSE
    /\ loadPc' = "done"
    /\ UNCHANGED <<placesFetch, tagsFetch, placesData, tagsData, uiVars, hasMapboxToken, camVars, domVars,
                   layoutVars, panelVars>>
    /\ popupClipEffect

\* mutant of LoadFail: the catch logs and leaves the loading flag set
LoadFailStuck ==
    /\ loadPc = "await"
    /\ \/ placesFetch = "rejected"
       \/ tagsFetch = "rejected"
       \/ placesFetch = "ok" /\ tagsFetch = "ok"
    /\ errorLogged' = TRUE
    /\ loadPc' = "failed"
    /\ UNCHANGED <<placesFetch, tagsFetch, placesData, tagsData, places, tagGuide, loading,
                   uiVars, hasMapboxToken, camVars, clipVars,
                   layoutVars, legendOpen, geoVars, feedbackVars>>

\* load().catch: Promise.all rejected, or a body failed to parse
LoadFail ==
    /\ loadPc = "await"
    /\ \/ placesFetch = "rejected"
       \/ tagsFetch = "rejected"
       \/ placesFetch = "ok" /\ tagsFetch = "ok"
    /\ errorLogged' = TRUE
    /\ loading' = FALSE
    /\ loadPc' = "failed"
    /\ UNCHANGED <<placesFetch, tagsFetch, placesData, tagsData, places, tagGuide,
                   uiVars, hasMapboxToken, camVars, clipVars,
                   layoutVars, legendOpen, geoVars, feedbackVars>>

NextLoad ==
    \/ PlacesFetchResolve
    \/ TagsFetchResolve
    \/ PlacesFetchReject
    \/ TagsFetchReject
    \/ LoadFinish
    \/ LoadFail

----------------------------------------------------------------------------
(* User and map events *)

\* a search box that applies every keystroke at once
TypeQueryLive ==
    /\ \E s \in QueryInputs : queryInput' = s /\ query' = s
    /\ UNCHANGED <<dataVars, selectedTags, activePlaceId, viewMode, mapBounds,
                   hasMapboxToken, camVars, clipVars,
                   layoutVars, panelVars>>

\* onChange of the name search input
TypeQuery ==
    /\ \E s \in QueryInputs : queryInput' = s
    /\ UNCHANGED <<dataVars, query, selectedTags, activePlaceId, viewMode, mapBounds,
                   hasMapboxToken, camVars, clipVars,
                   layoutVars, panelVars>>

\* Enter in the name search input, or the Search button
SubmitQuery ==
    /\ query' = queryInput
    /\ activePlaceId' = NullStr
    /\ UNCHANGED <<dataVars, queryInput, selectedTags, viewMode, mapBounds, hasMapboxToken, camVars, domVars,
                   layoutVars, panelVars>>
    /\ popupClipEffect

\* a clear button that resets the two strings only
clearNameSearchKeepActive ==
    /\ queryInput # <<>>
    /\ queryInput' = <<>>
    /\ query' = <<>>
    /\ UNCHANGED <<dataVars, selectedTags, activePlaceId, viewMode, mapBounds,
                   hasMapboxToken, camVars, clipVars, layoutVars, panelVars>>

\* the clear button, rendered while queryInput is non-empty
clearNameSearch ==
    /\ queryInput # <<>>
    /\ queryInput' = <<>>
    /\ query' = <<>>
    /\ activePlaceId' = NullStr
    /\ UNCHANGED <<dataVars, selectedTags, viewMode, mapBounds, hasMapboxToken, camVars, domVars,
                   layoutVars, panelVars>>
    /\ popupClipEffect

\* mutant of toggled: the tag is added whether or not it is selected
toggledAppend(prev, tag) == Append(prev, tag)

toggled(prev, tag) ==
    IF \E i \in DOMAIN prev : prev[i] = tag
    THEN LET other(x) == x # tag IN SelectSeq(prev, other)
    ELSE Append(prev, tag)

\* a click on one of the tag chips
toggleTag ==
    /\ \E t \in allTags : selectedTags' = toggled(selectedTags, t)
    /\ UNCHANGED <<dataVars, queryInput, query, activePlaceId, viewMode, mapBounds,
                   hasMapboxToken, camVars, clipVars,
                   layoutVars, panelVars>>

\* the Clear button of the tag section
ClearTags ==
    /\ selectedTags' = <<>>
    /\ UNCHANGED <<dataVars, queryInput, query, activePlaceId, viewMode, mapBounds,
                   hasMapboxToken, camVars, clipVars,
                   layoutVars, panelVars>>

\* the Map / List buttons
SetViewMode ==
    /\ \E m \in {"map", "list"} : viewMode' = m
    /\ UNCHANGED <<dataVars, queryInput, query, selectedTags, activePlaceId, mapBounds,
                   hasMapboxToken, camVars, domVars,
                   layoutVars, panelVars>>
    /\ popupClipEffect

\* onLoad, onMoveEnd and onZoomEnd of <MapGL>
MapMoved ==
    /\ mapShown
    /\ \E b \in BoundsChoices : mapBounds' = b
    /\ UNCHANGED <<dataVars, queryInput, query, selectedTags, activePlaceId, viewMode,
                   hasMapboxToken, camVars, clipVars,
                   layoutVars, panelVars>>

\* onClick of <MapGL> on an individual point
MarkerClick ==
    /\ mapShown
    /\ \E i \in DOMAIN placesGeoJSON : activePlaceId' = placesGeoJSON[i].pid
    /\ UNCHANGED <<dataVars, queryInput, query, selectedTags, viewMode, mapBounds,
                   hasMapboxToken, camVars, domVars,
                   layoutVars, panelVars>>
    /\ popupClipEffect

\* onClose of <Popup>
PopupClose ==
    /\ popupShown
    /\ activePlaceId' = NullStr
    /\ UNCHANGED <<dataVars, queryInput, query, selectedTags, viewMode, mapBounds,
                   hasMapboxToken, camVars, domVars,
                   layoutVars, panelVars>>
    /\ popupClipEffect

\* zoom levels the camera can come to rest at, in half levels
ZoomChoices == {19, 28}

\* zooms getClusterExpansionZoom can report, in half levels
ExpansionZooms == {22, 34}

\* clusterMaxZoom={10}, in half levels
clusterMaxZoom == 20

\* clusterMinPoints={3}
clusterMinPoints == 3

\* the cap of easeTo's zoom: Math.min(zoom, 16), in half levels
maxEaseZoom == 32

\* onZoomEnd of <MapGL>, after the camera came to rest at another zoom
MapZoomed ==
    /\ mapShown
    /\ \E z \in ZoomChoices : mapZoom' = z
    /\ \E b \in BoundsChoices : mapBounds' = b
    /\ UNCHANGED <<dataVars, queryInput, query, selectedTags, activePlaceId, viewMode,
                   hasMapboxToken, mapCmd, clipVars, layoutVars, panelVars>>

\* onClick of <MapGL> on a cluster, with the callback of
\* getClusterExpansionZoom; the cluster lies at the place of one of its points
ClusterClick ==
    /\ mapShown
    /\ mapZoom <= clusterMaxZoom
    /\ Len(placesGeoJSON) >= clusterMinPoints
    /\ \E i \in DOMAIN placesGeoJSON : \E zoom \in ExpansionZooms :
           mapCmd' = easeTo(placesGeoJSON[i].coordinates[1],
                            placesGeoJSON[i].coordinates[2], Min(zoom, maxEaseZoom))
    /\ UNCHANGED <<dataVars, uiVars, hasMapboxToken, mapZoom, clipVars, layoutVars, panelVars>>

\* x coordinates of the pointer
PointerXs == {0, 100, 300, 700}

\* the effect that stores the width after a render that changed it
PersistWidth ==
    /\ storedWidth # Num(sidebarWidth)
    /\ storedWidth' = Num(sidebarWidth)
    /\ UNCHANGED <<dataVars, uiVars, hasMapboxToken, camVars, clipVars, isMobile,
                   sidebarWidth, resizeState, panelVars>>

\* mutant of legendEffect: the legend is reset on every viewport event
legendEffectEveryEvent == legendOpen' = ~isMobile'

\* useEffect(() => setLegendOpen(!isMobile), [isMobile]): runs when a render
\* sees a new value of isMobile
legendEffect ==
    legendOpen' = IF isMobile' # isMobile THEN ~isMobile' ELSE legendOpen

\* useIsMobile: the mount effect, a change of the media query, a resize
ViewportChange ==
    /\ \E b \in BOOLEAN : isMobile' = b
    /\ UNCHANGED <<dataVars, uiVars, hasMapboxToken, camVars, clipVars, sidebarWidth,
                   resizeState, storedWidth, errorLogged, geoVars, feedbackVars>>
    /\ legendEffect

\* the legend panel is rendered: always on desktop, when open on mobile
legendPanelShown == mapShown /\ (isMobile => legendOpen)

\* onClick of the header button of the legend panel
LegendHeaderClick ==
    /\ legendPanelShown
    /\ legendOpen' = ~legendOpen
    /\ UNCHANGED <<dataVars, uiVars, hasMapboxToken, camVars, clipVars, layoutVars,
                   errorLogged, geoVars, feedbackVars>>

\* onClick of the small button shown on mobile while the legend is collapsed
LegendShowClick ==
    /\ mapShown
    /\ isMobile
    /\ ~legendOpen
    /\ legendOpen' = TRUE
    /\ UNCHANGED <<dataVars, uiVars, hasMapboxToken, camVars, clipVars, layoutVars,
                   errorLogged, geoVars, feedbackVars>>

\* onPointerDown of the resizer, which is rendered on desktop only
ResizerPointerDown(x) ==
    /\ ~isMobile
    /\ resizeState' = [dragging |-> TRUE, startX |-> x, startWidth |-> sidebarWidth]
    /\ UNCHANGED <<dataVars, uiVars, hasMapboxToken, camVars, clipVars, isMobile,
                   sidebarWidth, storedWidth, panelVars>>

\* a width let through as it is
clampWidthNone(w) == w

\* Math.max(260, Math.min(520, w))
clampWidth(w) == Max(minSidebarWidth, Min(maxSidebarWidth, w))

\* onMove, the pointermove listener of the window
WindowPointerMove(x) ==
    /\ IF resizeState.dragging
       THEN sidebarWidth' = clampWidth(resizeState.startWidth + (x - resizeState.startX))
       ELSE UNCHANGED sidebarWidth
    /\ UNCHANGED <<dataVars, uiVars, hasMapboxToken, camVars, clipVars, isMobile,
                   resizeState, storedWidth, panelVars>>

\* onUp, the pointerup listener of the window
WindowPointerUp ==
    /\ resizeState' = [resizeState EXCEPT !.dragging = FALSE]
    /\ UNCHANGED <<dataVars, uiVars, hasMapboxToken, camVars, clipVars, isMobile,
                   sidebarWidth, storedWidth, panelVars>>

\* the lowest zoom focusPlace flies to: Math.max(12, ...), in half levels
minFocusZoom == 24

\* focusPlace(p): no handler of the component calls it, so no specification
\* takes this step
focusPlace ==
    /\ \E i \in DOMAIN filteredUnique :
           LET p == filteredUnique[i]
           IN /\ activePlaceId' = placeKey(p)
              /\ mapCmd' = IF mappable(p) /\ mapShown
                           THEN flyTo(safeNum(p.lng).val, safeNum(p.lat).val,
                                      Max(minFocusZoom, mapZoom))
                           ELSE mapCmd
    /\ UNCHANGED <<dataVars, queryInput, query, selectedTags, viewMode, mapBounds,
                   hasMapboxToken, mapZoom, domVars, layoutVars, panelVars>>
    /\ popupClipEffect

\* measurements one active place can get
MaxClipRuns == 2

\* one animation frame: the first callback requests the second, the second
\* measures the popup against the container and pans the map
AnimationFrame ==
    /\ rafStage # "none"
    /\ framesElapsed' = framesElapsed + 1
    /\ IF rafStage = "raf1"
       THEN /\ rafStage' = "raf2"
            /\ UNCHANGED <<clipRuns, mapCmd>>
       ELSE /\ rafStage' = "none"
            /\ IF popupShown
               THEN LET d == clipCorrection(containerRect, popupRect)
                    IN /\ clipRuns < MaxClipRuns
                       /\ clipRuns' = clipRuns + 1
                       /\ mapCmd' = IF d.dx # 0 \/ d.dy # 0
                                    THEN panBy(0 - d.dx, 0 - d.dy)
                                    ELSE mapCmd
               ELSE UNCHANGED <<clipRuns, mapCmd>>
    /\ UNCHANGED <<dataVars, uiVars, hasMapboxToken, mapZoom, domVars, layoutVars, panelVars>>

Next ==
    \/ PlacesFetchResolve
    \/ TagsFetchResolve
    \/ PlacesFetchReject
    \/ TagsFetchReject
    \/ LoadFinish
    \/ LoadFail
    \/ TypeQuery
    \/ SubmitQuery
    \/ clearNameSearch
    \/ toggleTag
    \/ ClearTags
    \/ SetViewMode
    \/ MapMoved
    \/ MarkerClick
    \/ PopupClose

Spec == Init /\ [][Next]_vars

----------------------------------------------------------------------------
(* Properties of the dashboard specification *)

hasBothCoordinates(p) == p.lat.kind = "num" /\ p.lng.kind = "num"

\* C1: the Filtered Result Sequence holds no two entries with the same
\* identity key, in every reachable state.
C1_NoDuplicateKeys ==
    LET fu == filteredUnique
    IN \A i, j \in DOMAIN fu : i # j => placeKey(fu[i]) # placeKey(fu[j])

\* two filtered records share a key and deduplication dropped one of them
C1_Witness ==
    /\ loadPc = "done"
    /\ \E i, j \in DOMAIN filtered :
           i # j /\ placeKey(filtered[i]) = placeKey(filtered[j])
    /\ Len(filteredUnique) < Len(filtered)

\* C3: tag filtering has AND semantics: a place passes the tag predicate iff
\* no tag is selected or every selected tag is among its tags, and a place
\* that misses a selected tag is in none of the result sequences.
C3_TagAnd ==
    LET sel == Range(selectedTags)
    IN /\ \A i \in DOMAIN places :
              matchTags(places[i], selectedTags)
                  <=> (sel = {} \/ sel \subseteq Range(places[i].service_tags))
       /\ \A p \in Range(filtered) \cup Range(filteredUnique) \cup Range(placesInView) :
              sel \subseteq Range(p.service_tags)

\* two tags are selected; one place has both and passes, another has only one
C3_Witness ==
    /\ Len(selectedTags) = 2
    /\ \E i \in DOMAIN places : places[i] \in Range(filteredUnique)
    /\ \E i \in DOMAIN places :
           /\ selectedTags[1] \in Range(places[i].service_tags)
           /\ selectedTags[2] \notin Range(places[i].service_tags)
           /\ places[i] \notin Range(filtered)

\* C4: in list mode, or while the bounds are unknown, the In-View Sequence
\* is the Filtered Result Sequence.
C4_ListModeNoRestriction ==
    (viewMode = "list" \/ ~mapBounds.known) => placesInView = filteredUnique

\* list mode with known bounds that exclude a filtered place
C4_Witness ==
    /\ viewMode = "list"
    /\ mapBounds.known
    /\ \E p \in Range(filteredUnique) : ~inBounds(p, mapBounds)
    /\ Len(placesInView) > 0

\* C5: in map mode with known bounds, a filtered place with both coordinates
\* is in view iff its coordinates lie in the closed bounds rectangle.
C5_ClosedRectangle ==
    (viewMode = "map" /\ mapBounds.known) =>
        \A p \in Range(filteredUnique) :
            hasBothCoordinates(p) =>
                (p \in Range(placesInView)
                     <=> /\ mapBounds.west <= p.lng.val /\ p.lng.val <= mapBounds.east
                         /\ mapBounds.south <= p.lat.val /\ p.lat.val <= mapBounds.north)

\* map mode: one place lies exactly on a corner and is in view, another is outside
C5_Witness ==
    /\ viewMode = "map"
    /\ mapBounds.known
    /\ \E p \in Range(placesInView) :
           /\ hasBothCoordinates(p)
           /\ p.lat.val = mapBounds.north
           /\ p.lng.val = mapBounds.east
    /\ \E p \in Range(filteredUnique) : hasBothCoordinates(p) /\ p \notin Range(placesInView)

\* C6: a place whose latitude or longitude is null or absent is list-only:
\* it yields no map feature, gets no popup and, in map mode with known
\* bounds, is not in view.
C6_ListOnly ==
    /\ \A p \in Range(filteredUnique) : ~hasBothCoordinates(p) => features(<<p>>) = <<>>
    /\ popupShown => hasBothCoordinates(places[activePlace])
    /\ (viewMode = "map" /\ mapBounds.known) =>
           \A p \in Range(placesInView) : hasBothCoordinates(p)

\* the organization name the text predicate reads
organizationName(p) == Nullish(Nullish(p.organization, p.organisation), <<>>)

\* t occurs in s: s = prefix \o t \o suffix
isSubstring(t, s) ==
    \E i \in 0..Len(s) : \E j \in i..Len(s) : SubSeq(s, i + 1, j) = t

passesText(p) == \E i \in DOMAIN filtered : filtered[i] = p

\* C10 as claimed: with no tag selected, a place passes iff the trimmed,
\* lower-cased query is empty or a substring of the lower-cased
\* concatenation of the organization and office names.
C10_Original ==
    selectedTags = <<>> =>
        \A i \in DOMAIN places :
            LET p == places[i]
                q == toLowerCase(trim(query))
                name == organizationName(p) \o Nullish(p.office, <<>>)
            IN passesText(p) <=> (q = <<>> \/ isSubstring(q, toLowerCase(name)))

\* C10 as amended: the organization and office names are joined by one
\* space before the substring test.
C10_TextPredicate ==
    selectedTags = <<>> =>
        \A i \in DOMAIN places :
            LET p == places[i]
                q == toLowerCase(trim(query))
                name == organizationName(p) \o <<" ">> \o Nullish(p.office, <<>>)
            IN passesText(p) <=> (q = <<>> \/ isSubstring(q, toLowerCase(name)))

\* a padded, upper-case query is applied; one place passes and one does not
C10_Witness ==
    /\ selectedTags = <<>>
    /\ toLowerCase(trim(query)) # <<>>
    /\ toLowerCase(trim(query)) # query
    /\ \E i \in DOMAIN places : passesText(places[i])
    /\ \E i \in DOMAIN places : ~passesText(places[i])

----------------------------------------------------------------------------
(* The identity key on records that share an upstream identifier: load()   *)
(* run on pairs of records drawn from a product of field values.           *)

KeyPlaces ==
    { Place(id, org, office, addr, Num(1), Num(1), <<>>, <<>>) :
          id \in {NullStr, <<"x">>},
          org \in {<<"A">>, <<"C">>},
          office \in {<<>>, <<"A">>, <<"B">>},
          addr \in {<<"m">>, <<"n">>} }

InitKey ==
    /\ InitLoad
    /\ InitUi
    /\ InitCamera
    /\ InitPopupEffect
    /\ InitPanels
    /\ InitLayoutDefault
    /\ InitDomDefault
    /\ placesData \in [1..MaxPlaces -> KeyPlaces]
    /\ tagsData = <<>>
    /\ hasMapboxToken = TRUE

SpecKey == InitKey /\ [][NextLoad]_vars

\* the upstream identifier of a record
upstreamId(p) == OrEmpty(OrStr(p.id, p.place_id))

\* C2: two records with the same non-empty upstream identifier whose office
\* names differ or whose addresses differ get different keys, and both are
\* entries of the Filtered Result Sequence.
C2_DistinctKeys ==
    loadPc = "done" =>
        \A i, j \in DOMAIN places :
            LET a == places[i]
                b == places[j]
            IN (/\ i < j
                /\ upstreamId(a) # <<>>
                /\ upstreamId(a) = upstreamId(b)
                /\ (a.office # b.office \/ a.address # b.address))
               => /\ placeKey(a) # placeKey(b)
                  /\ a \in Range(filteredUnique)
                  /\ b \in Range(filteredUnique)

----------------------------------------------------------------------------
(* The tag canonicalizer: load() run on taxonomies and raw tag lists drawn *)
(* from bounded sets.                                                      *)

MaxTagDefs == 2

MaxRawTags == 2

CanonTagDefs ==
    { [tag |-> t, display_name |-> d] :
          t \in { <<"a", "_", "b">>, <<"c">>, <<"e">> },
          d \in { NullStr, <<"A", " ", "b">>, <<"C">> } }

\* taxonomies: canonical identifiers are unique
CanonTaxonomies ==
    { t \in SeqsUpTo(CanonTagDefs, MaxTagDefs) :
          \A i, j \in DOMAIN t : i # j => t[i].tag # t[j].tag }

\* raw spellings found in the places file
CanonRawTags ==
    { <<>>, <<"nbsp", " ">>, <<"A", " ", "b">>, <<"a", "_", "b">>,
      <<" ", "a", "nbsp", " ", "B", "zw">>, <<"c">>, <<"d", " ", "E">> }

\* a raw list names each spelling once
CanonRawLists ==
    { r \in SeqsUpTo(CanonRawTags, MaxRawTags) :
          \A i, j \in DOMAIN r : i # j => r[i] # r[j] }

InitCanon ==
    /\ InitLoad
    /\ InitUi
    /\ InitCamera
    /\ InitPopupEffect
    /\ InitPanels
    /\ InitLayoutDefault
    /\ InitDomDefault
    /\ tagsData \in CanonTaxonomies
    /\ \E r \in CanonRawLists :
           placesData = << Place(NullStr, <<"A">>, <<>>, <<"m">>, Num(1), Num(1), <<>>, r) >>
    /\ hasMapboxToken = TRUE

SpecCanon == InitCanon /\ [][NextLoad]_vars

\* the canonical identifiers the taxonomy defines
canonicalIds(tags) == { trim(OrEmpty(tags[i].tag)) : i \in DOMAIN tags } \ {<<>>}

\* C7: canonicalization is idempotent: canonicalizeTag returns every
\* canonical identifier of the taxonomy unchanged.
C7_Idempotent ==
    loadPc = "done" =>
        \A id \in canonicalIds(tagGuide) : canonicalizeTag(id, tagMaps(tagGuide)) = id

\* C8 as claimed: after the load every entry of every place's service_tags
\* is a canonical identifier defined in the taxonomy.
C8_Original ==
    loadPc = "done" =>
        \A i \in DOMAIN places :
            Range(places[i].service_tags) \subseteq canonicalIds(tagGuide)

\* the raw tag resolves to a taxonomy entry
resolves(raw, tags) ==
    LET key == normalizeTagKey(raw)
    IN key \in DOMAIN tagMaps(tags).displayToTag \cup DOMAIN tagMaps(tags).tagLowerToTag

\* C8 as amended: after the load every entry is non-empty and is a canonical
\* identifier of the taxonomy or, for a raw tag that resolves to no taxonomy
\* entry, the normalized raw tag with its spaces replaced by underscores;
\* only raw tags that normalize to the empty string are dropped.
C8_CanonicalOrFallback ==
    loadPc = "done" =>
        \A i \in DOMAIN places :
            LET raw == placesData[i].service_tags
                out == places[i].service_tags
                kept == { j \in DOMAIN raw : normalizeTagKey(raw[j]) # <<>> }
            IN /\ Len(out) = Cardinality(kept)
               /\ \A k \in DOMAIN out :
                      /\ out[k] # <<>>
                      /\ \/ out[k] \in canonicalIds(tagGuide)
                         \/ \E j \in kept :
                                /\ ~resolves(raw[j], tagGuide)
                                /\ out[k] = replaceChar(normalizeTagKey(raw[j]), " ", <<"_">>)
               /\ \A j \in kept :
                      resolves(raw[j], tagGuide) =>
                          \E k \in DOMAIN out : out[k] \in canonicalIds(tagGuide)

\* an unresolvable raw tag was kept in its fallback form, an empty one dropped
C8_Witness ==
    /\ loadPc = "done"
    /\ tagGuide # <<>>
    /\ \E j \in DOMAIN placesData[1].service_tags :
           normalizeTagKey(placesData[1].service_tags[j]) = <<>>
    /\ \E k \in DOMAIN places[1].service_tags :
           places[1].service_tags[k] \notin canonicalIds(tagGuide)

\* C9: after canonicalization no service_tags list holds the same canonical
\* identifier twice.
C9_NoDuplicateTags ==
    loadPc = "done" =>
        \A i \in DOMAIN places :
            LET out == places[i].service_tags
            IN \A k, l \in DOMAIN out :
                   (k # l /\ out[k] \in canonicalIds(tagGuide)) => out[k] # out[l]

----------------------------------------------------------------------------
(* Projections of the filtered places *)

\* C13: the map point features are the places of the Filtered Result Sequence
\* that have both coordinates, one feature per place in sequence order, each
\* with that place's identity key, category and category color; no two features
\* carry the same key.  Bounds and view mode are free in the reachable states.
C13_FeaturesOfMappable ==
    LET ms == SelectSeq(filteredUnique, hasBothCoordinates)
        fs == placesGeoJSON
    IN /\ Len(fs) = Len(ms)
       /\ \A i \in DOMAIN fs :
              /\ i \in DOMAIN ms
              /\ fs[i].pid = placeKey(ms[i])
              /\ fs[i].category = OrEmpty(ms[i].category)
              /\ fs[i].color = categoryColor(ms[i].category)
              /\ fs[i].coordinates = <<ms[i].lng.val, ms[i].lat.val>>
       /\ \A i, j \in DOMAIN fs : i # j => fs[i].pid # fs[j].pid

----------------------------------------------------------------------------
(* countsByCategory: datasets of records with distinct keys, each with one of
   four categories and one of two positions, under load, the view mode buttons
   and the moves of the map *)

MaxCountPlaces == 3

CountCategories == { NullStr, <<>>, <<"a">>, <<"B">> }

CountPositions == { 1, 2 }

\* the organization of the i-th record: i letters
OrgOf(i) == [k \in 1..i |-> "o"]

CountDatasets ==
    { [i \in 1..MaxCountPlaces |->
          Place(NullStr, OrgOf(i), <<>>, <<"m">>, Num(pos[i]), Num(pos[i]), cat[i], <<>>)] :
        cat \in [1..MaxCountPlaces -> CountCategories],
        pos \in [1..MaxCountPlaces -> CountPositions] }

InitCounts ==
    /\ InitLoad
    /\ InitUi
    /\ InitCamera
    /\ InitPopupEffect
    /\ InitPanels
    /\ InitLayoutDefault
    /\ InitDomDefault
    /\ placesData \in CountDatasets
    /\ tagsData = <<>>
    /\ hasMapboxToken = TRUE

NextCounts ==
    \/ PlacesFetchResolve
    \/ TagsFetchResolve
    \/ PlacesFetchReject
    \/ TagsFetchReject
    \/ LoadFinish
    \/ LoadFail
    \/ SetViewMode
    \/ MapMoved

SpecCounts == InitCounts /\ [][NextCounts]_vars

\* the category a place is counted under
countedUnder(p) == IF p.category = NullStr \/ p.category = <<>> THEN Uncategorized ELSE p.category

RECURSIVE sumOfCounts(_)
sumOfCounts(entries) ==
    IF entries = <<>> THEN 0 ELSE Head(entries)[2] + sumOfCounts(Tail(entries))

\* C14: countsByCategory lists each category of the In-View Sequence once,
\* with the number of in-view places counted under it (a place with an empty
\* category under "Uncategorized"), in non-increasing order of count; the
\* counts add up to the length of the In-View Sequence.
C14_CountsByCategory ==
    LET cs == countsByCategory
        pv == placesInView
    IN /\ \A i, j \in DOMAIN cs : i # j => cs[i][1] # cs[j][1]
       /\ \A i \in DOMAIN cs :
              cs[i][2] = Cardinality({k \in DOMAIN pv : countedUnder(pv[k]) = cs[i][1]})
       /\ \A k \in DOMAIN pv : \E i \in DOMAIN cs : cs[i][1] = countedUnder(pv[k])
       /\ \A i, j \in DOMAIN cs : i < j => cs[i][2] >= cs[j][2]
       /\ sumOfCounts(cs) = Len(pv)
       /\ pv = <<>> => cs = <<>>

\* map mode with known bounds; the first in-view place is counted under
\* "Uncategorized", which is listed behind a category counted twice
C14_Witness ==
    LET cs == countsByCategory
        pv == placesInView
    IN /\ viewMode = "map"
       /\ mapBounds.known
       /\ Len(pv) = 3
       /\ Len(cs) = 2
       /\ cs[1][2] = 2
       /\ cs[2] = <<Uncategorized, 1>>
       /\ countedUnder(pv[1]) = Uncategorized

----------------------------------------------------------------------------
(* The dashboard with its map camera and animation frames, on one dataset *)

\* /data/places_public.json of the view specification: three records the map
\* draws (one of them with a null latitude) and one without a longitude
ViewPlaces ==
    << Place(<<"x">>, <<"A", "b">>, <<"c", "D">>, <<"m">>, Num(1), Num(1),
             <<"L", "i", "b", "r", "a", "r", "y">>, << <<"T", " ", "a">>, <<"B">> >>),
       Place(NullStr, <<"A", "b">>, <<>>, <<"m">>, JsNull, Num(1),
             <<"F", "o", "o", "d", "-", "A", "c", "c", "e", "s", "s">>, << <<"T", " ", "a">> >>),
       [Place(NullStr, NullStr, <<"c">>, <<"n">>, Num(2), Absent, NullStr, <<>>)
             EXCEPT !.organisation = <<"E", " ", "b">>],
       Place(NullStr, <<"b", "c">>, NullStr, <<"n">>, Num(2), Num(2),
             <<"f", "o", "o", "d", " ", "a", "c", "c", "e", "s", "s">>, << <<"B">> >>) >>

InitView ==
    /\ InitLoad
    /\ InitUi
    /\ InitCamera
    /\ InitPopupEffect
    /\ InitPanels
    /\ InitLayoutDefault
    /\ InitDomDefault
    /\ placesData = ViewPlaces
    /\ tagsData = DashboardTags
    /\ hasMapboxToken \in BOOLEAN

NextView ==
    \/ PlacesFetchResolve
    \/ TagsFetchResolve
    \/ PlacesFetchReject
    \/ TagsFetchReject
    \/ LoadFinish
    \/ LoadFail
    \/ TypeQuery
    \/ SubmitQuery
    \/ clearNameSearch
    \/ toggleTag
    \/ ClearTags
    \/ SetViewMode
    \/ MapMoved
    \/ MapZoomed
    \/ MarkerClick
    \/ ClusterClick
    \/ PopupClose
    \/ AnimationFrame

SpecView == InitView /\ [][NextView]_vars

\* C15: a step that makes a place with coordinates the active place also
\* commands the map to fly to that place, at a zoom that is at least the
\* minimum focus zoom and at least the current zoom.
C15_SelectionFlies ==
    [][ (activePlaceId' # activePlaceId /\ activePlaceId' # NullStr)
        => \E i \in DOMAIN placesGeoJSON :
              /\ placesGeoJSON[i].pid = activePlaceId'
              /\ mapCmd'.kind = "flyTo"
              /\ <<mapCmd'.x, mapCmd'.y>> = placesGeoJSON[i].coordinates
              /\ mapCmd'.zoom >= minFocusZoom
              /\ mapCmd'.zoom >= mapZoom
      ]_vars

\* C16: a step of the clear button of the name search, and a step that
\* closes the popup, end with no active place and no popup.
C16_ClearAndCloseDeselect ==
    [][ (clearNameSearch \/ PopupClose) => (activePlaceId' = NullStr /\ ~popupShown') ]_vars

\* a popup is shown while the name search holds text: both steps can be taken
\* from here
C16_Witness ==
    /\ popupShown
    /\ activePlaceId # NullStr
    /\ queryInput # <<>>

\* C17: a popup is rendered only while the view mode is map and the active
\* place has both coordinates.
C17_PopupOnlyInMap ==
    popupShown => (viewMode = "map" /\ hasBothCoordinates(places[activePlace]))

\* C18 as stated: the correction runs once for one activation of a place,
\* whatever happens later.
C18_Original == clipRuns <= 1

\* C18: the correction measures only when two animation frames have passed
\* since the active place or the view mode last changed; map moves, zoom ends,
\* tag toggles and keystrokes neither request frames nor cancel them; and
\* once it has run, frames are requested again only by a step that changes
\* the active place or the view mode (so list and back to map runs it again).
C18_OncePerEffectRun ==
    [][ /\ clipRuns' = clipRuns + 1 => (framesElapsed' = 2 /\ rafStage' = "none")
        /\ (MapMoved \/ MapZoomed \/ toggleTag \/ ClearTags \/ TypeQuery)
               => UNCHANGED <<rafStage, framesElapsed, clipRuns>>
        /\ (rafStage = "none" /\ rafStage' # "none")
               => (activePlaceId' # activePlaceId \/ viewMode' # viewMode)
      ]_vars

\* the correction has run a second time for the place that is still active
C18_Witness ==
    /\ clipRuns = 2
    /\ framesElapsed = 2
    /\ rafStage = "none"
    /\ popupShown

----------------------------------------------------------------------------
(* The popup-clipping correction on the boxes the browser can report: one
   mappable place, its marker, the popup and the animation frames *)

ContainerRects == { Rect(0, 0, 600, 400), Rect(50, 20, 650, 420) }

\* popup boxes by left edge, width, top edge and height; the widths and
\* heights hold one that fits the inset container and one that does not
PopupRects ==
    { Rect(l, t, l + w, t + h) :
        l \in {0 - 300, 0 - 100, 5, 12, 200, 450}, w \in {180, 590},
        t \in {0 - 250, 5, 12, 300},               h \in {100, 390} }

InitClip ==
    /\ InitLoad
    /\ InitUi
    /\ InitCamera
    /\ InitPopupEffect
    /\ InitPanels
    /\ InitLayoutDefault
    /\ containerRect \in ContainerRects
    /\ popupRect \in PopupRects
    /\ placesData = << Place(NullStr, <<"A">>, <<>>, <<"m">>, Num(1), Num(1), <<>>, <<>>) >>
    /\ tagsData = <<>>
    /\ hasMapboxToken = TRUE

NextClip ==
    \/ PlacesFetchResolve
    \/ TagsFetchResolve
    \/ PlacesFetchReject
    \/ TagsFetchReject
    \/ LoadFinish
    \/ LoadFail
    \/ MarkerClick
    \/ PopupClose
    \/ AnimationFrame

SpecClip == InitClip /\ [][NextClip]_vars

\* the container's box inset by d on every side
inset(r, d) == Rect(r.left + d, r.top + d, r.right - d, r.bottom - d)

liesInside(r, outer) ==
    /\ r.left >= outer.left /\ r.right <= outer.right
    /\ r.top >= outer.top /\ r.bottom <= outer.bottom

fitsIn(r, outer) ==
    /\ r.right - r.left <= outer.right - outer.left
    /\ r.bottom - r.top <= outer.bottom - outer.top

shifted(r, dx, dy) == Rect(r.left + dx, r.top + dy, r.right + dx, r.bottom + dy)

\* how far r sticks out of outer, on the x axis and on the y axis
overflowX(r, outer) == Max(Max(outer.left - r.left, r.right - outer.right), 0)

overflowY(r, outer) == Max(Max(outer.top - r.top, r.bottom - outer.bottom), 0)

Abs(v) == IF v < 0 THEN 0 - v ELSE v

\* C19: a commanded pan is at most 240 px on each axis; once the correction
\* has run no pan is commanded if the popup lies inside the container inset
\* by 12 px; and if the popup fits the inset container and sticks out by at
\* most 240 px on each axis, the popup shifted by the correction (the
\* opposite of the pan) lies inside the inset container.
C19_BoundedCorrection ==
    LET box == inset(containerRect, 12)
    IN /\ mapCmd.kind = "panBy" => (Abs(mapCmd.x) <= 240 /\ Abs(mapCmd.y) <= 240)
       /\ clipRuns > 0 =>
            /\ liesInside(popupRect, box) => mapCmd.kind # "panBy"
            /\ ( /\ fitsIn(popupRect, box)
                 /\ overflowX(popupRect, box) <= 240
                 /\ overflowY(popupRect, box) <= 240 )
               => liesInside(shifted(popupRect, 0 - mapCmd.x, 0 - mapCmd.y), box)

\* a pan cut to 240 px on the x axis and left whole on the y axis
C19_Witness ==
    /\ clipRuns > 0
    /\ mapCmd.kind = "panBy"
    /\ mapCmd.x = 0 - 240
    /\ mapCmd.y # 0
    /\ Abs(mapCmd.y) < 240
    /\ overflowX(popupRect, inset(containerRect, 12)) > 240

----------------------------------------------------------------------------
(* The sidebar width: what localStorage holds at startup, the viewport class
   and the pointer events of a drag, next to load() *)

\* the stored item at startup: missing, text, and numbers in and out of range
StoredWidths ==
    { JsNull, NotANumber, Infinite, Num(0), Num(259), Num(260), Num(300), Num(520),
      Num(521) }

InitLayout ==
    /\ InitLoad
    /\ InitUi
    /\ InitCamera
    /\ InitPopupEffect
    /\ InitPanels
    /\ InitDomDefault
    /\ placesData = <<>>
    /\ tagsData = <<>>
    /\ hasMapboxToken = TRUE
    /\ isMobile = FALSE
    /\ storedWidth \in StoredWidths
    /\ sidebarWidth = initialSidebarWidth(storedWidth)
    /\ resizeState = [dragging |-> FALSE, startX |-> 0, startWidth |-> defaultSidebarWidth]

NextLayout ==
    \/ PlacesFetchResolve
    \/ TagsFetchResolve
    \/ PlacesFetchReject
    \/ TagsFetchReject
    \/ LoadFinish
    \/ LoadFail
    \/ PersistWidth
    \/ ViewportChange
    \/ LegendHeaderClick
    \/ LegendShowClick
    \/ \E x \in PointerXs : ResizerPointerDown(x)
    \/ \E x \in PointerXs : WindowPointerMove(x)
    \/ WindowPointerUp

SpecLayout == InitLayout /\ [][NextLayout]_vars

\* C20: at startup the sidebar width is the stored value if that is a number
\* from 260 to 520 and 360 otherwise; the width is always from 260 to 520; a
\* pointer move during a drag sets it to the width at the press plus the
\* pointer's displacement since the press, brought into that range; a pointer
\* move outside a drag leaves it unchanged, and nothing else changes it.
C20_SidebarWidth ==
    /\ sidebarWidth = IF /\ storedWidth.kind = "num"
                         /\ storedWidth.val >= 260
                         /\ storedWidth.val <= 520
                      THEN storedWidth.val
                      ELSE 360
    /\ [](sidebarWidth >= 260 /\ sidebarWidth <= 520)
    /\ [][ /\ \A x \in PointerXs :
                 WindowPointerMove(x)
                 => sidebarWidth' =
                       IF resizeState.dragging
                       THEN Max(260, Min(520, resizeState.startWidth + (x - resizeState.startX)))
                       ELSE sidebarWidth
           /\ sidebarWidth' # sidebarWidth
                 => (resizeState.dragging /\ \E x \in PointerXs : WindowPointerMove(x))
         ]_vars

\* a drag that began at the stored width 300 has reached the upper bound
C20_Witness ==
    /\ resizeState.dragging
    /\ resizeState.startWidth = 300
    /\ resizeState.startWidth + (700 - resizeState.startX) > 520
    /\ sidebarWidth = 520

----------------------------------------------------------------------------
(* Live input and applied query: the dashboard on a dataset of two records,
   of which the applied query "bc" keeps one *)

SearchPlaces ==
    << Place(<<"x">>, <<"A", "b">>, <<"c", "D">>, <<"m">>, Num(1), Num(1),
             <<"L", "i", "b", "r", "a", "r", "y">>, << <<"T", " ", "a">>, <<"B">> >>),
       Place(NullStr, <<"b", "c">>, NullStr, <<"n">>, Num(2), Num(2),
             <<"f", "o", "o", "d", " ", "a", "c", "c", "e", "s", "s">>, << <<"B">> >>) >>

InitSearch ==
    /\ InitLoad
    /\ InitUi
    /\ InitCamera
    /\ InitPopupEffect
    /\ InitPanels
    /\ InitLayoutDefault
    /\ InitDomDefault
    /\ placesData = SearchPlaces
    /\ tagsData = DashboardTags
    /\ hasMapboxToken \in BOOLEAN

SpecSearch == InitSearch /\ [][Next]_vars


\* C11 as stated: the applied query changes only on an explicit submission,
\* when it takes the value of the live input.
C11_Original == [][query' # query => query' = queryInput]_vars

\* C11: a keystroke changes the live input only and leaves the applied
\* query, the Filtered Result Sequence and the active place as they were; the
\* applied query changes only on a submission, when it takes the value of the
\* live input, or on the clear button, when it becomes empty together with the
\* live input.
C11_SeparateInputAndQuery ==
    [][ /\ TypeQuery => ( /\ query' = query
                          /\ \A f \in {filtered'} : uniqueByKey(f, {}) = filteredUnique
                          /\ activePlaceId' = activePlaceId )
        /\ query' # query => ( \/ (SubmitQuery /\ query' = queryInput)
                               \/ (clearNameSearch /\ query' = <<>> /\ queryInput' = <<>>) )
      ]_vars

\* typed text that is not applied, while a search is applied and a place active
C11_Witness ==
    /\ loadPc = "done"
    /\ queryInput # query
    /\ queryInput # <<>>
    /\ query # <<>>
    /\ activePlaceId # NullStr
    /\ Len(filteredUnique) < Len(places)

----------------------------------------------------------------------------
(* categoryColor and categoryIcon on spellings of one category *)

\* the words categories are spelled from
CategoryWords ==
    { << <<"f","o","o","d">>, <<"a","c","c","e","s","s">> >>,
      << <<"f","o","o","d">>, <<"b","a","n","k">> >>,
      << <<"s","o","u","p">>, <<"f","o","o","d">> >>,
      << <<"c","i","t","y">>, <<"h","a","l","l">> >> }

\* what is written between two words
WordSeparators ==
    { <<"-">>, <<"_">>, <<" ">>, <<"-", "-">>, <<" ", "-", " ">>, <<"_", " ">> }

UpperChar(c) ==
    IF \E i \in DOMAIN LowerCase : LowerCase[i] = c
    THEN UpperCase[CHOOSE i \in DOMAIN LowerCase : LowerCase[i] = c]
    ELSE c

Capitalized(w) == <<UpperChar(Head(w))>> \o Tail(w)

RECURSIVE joinWords(_, _, _)
joinWords(ws, sep, capital) ==
    LET w == IF capital THEN Capitalized(Head(ws)) ELSE Head(ws)
    IN IF Len(ws) = 1 THEN w ELSE w \o sep \o joinWords(Tail(ws), sep, capital)

CategorySpellings ==
    { joinWords(ws, sep, capital) :
        ws \in CategoryWords, sep \in WordSeparators, capital \in BOOLEAN }

InitCategory ==
    /\ InitLoad
    /\ InitUi
    /\ InitCamera
    /\ InitPopupEffect
    /\ InitPanels
    /\ InitLayoutDefault
    /\ InitDomDefault
    /\ \E c1, c2 \in CategorySpellings :
           placesData = << Place(NullStr, <<"A">>, <<>>, <<"m">>, Num(1), Num(1), c1, <<>>),
                           Place(NullStr, <<"A">>, <<>>, <<"n">>, Num(2), Num(2), c2, <<>>) >>
    /\ tagsData = <<>>
    /\ hasMapboxToken = TRUE

SpecCategory == InitCategory /\ [][NextLoad]_vars

SeparatorChars == {"-", "_", " "}

\* the number of leading characters of s that are no separators
RECURSIVE wordLength(_)
wordLength(s) ==
    IF s = <<>> \/ Head(s) \in SeparatorChars THEN 0 ELSE 1 + wordLength(Tail(s))

\* the lower-cased words of s, read between runs of separators
RECURSIVE wordsOf(_)
wordsOf(s) ==
    LET t == dropLeading(s, SeparatorChars)
        n == wordLength(t)
    IN IF t = <<>> THEN <<>>
       ELSE <<toLowerCase(SubSeq(t, 1, n))>> \o wordsOf(SubSeq(t, n + 1, Len(t)))

\* C12: two loaded places whose categories are spelled from the same words,
\* differing in letter case and in the separator between the words only, get
\* the same color and the same icon, and their map features the same color.
C12_SpellingInsensitive ==
    \A i, j \in DOMAIN places :
        wordsOf(places[i].category) = wordsOf(places[j].category)
        => /\ categoryColor(places[i].category) = categoryColor(places[j].category)
           /\ categoryIcon(places[i].category) = categoryIcon(places[j].category)
           /\ placesGeoJSON[i].color = placesGeoJSON[j].color

\* "Food-Access" next to another spelling of it, both in the food color
C12_Witness ==
    /\ Len(places) = 2
    /\ places[1].category = <<"F","o","o","d","-","A","c","c","e","s","s">>
    /\ toLowerCase(places[2].category) \in { <<"f","o","o","d","_","a","c","c","e","s","s">>,
                                              <<"f","o","o","d"," ","a","c","c","e","s","s">> }
    /\ placesGeoJSON[1].color = "#2563EB"
    /\ placesGeoJSON[2].color = "#2563EB"
    /\ categoryIcon(places[2].category) = "canned food"

----------------------------------------------------------------------------
(* The load as seen by the derivations *)

\* C22: a non-empty place collection is seen only after both fetches have
\* resolved and load() has finished, and then every place carries the tags
\* the canonicalizer made of its fetched tags (and is otherwise the fetched
\* record); the fetches resolve in either order.
C22_PlacesOnlyCanonicalized ==
    places # <<>> =>
        /\ placesFetch = "ok"
        /\ tagsFetch = "ok"
        /\ loadPc = "done"
        /\ Len(places) = Len(placesData)
        /\ \A i \in DOMAIN places :
              /\ places[i].service_tags =
                     canonicalizeTags(placesData[i].service_tags, tagMaps(tagsData))
              /\ [places[i] EXCEPT !.service_tags = <<>>] =
                     [placesData[i] EXCEPT !.service_tags = <<>>]

\* loaded places whose tags differ from the fetched spellings
C22_Witness ==
    /\ places # <<>>
    /\ \E i \in DOMAIN places :
           /\ placesData[i].service_tags = << <<"T", " ", "a">>, <<"B">> >>
           /\ places[i].service_tags = << <<"t", "_", "a">>, <<"b">> >>

----------------------------------------------------------------------------
(* Deduplication keeps first occurrences *)

\* positions of f that hold the first record of their identity key
firstOccurrences(f) ==
    {i \in DOMAIN f : \A j \in 1..(i - 1) : placeKey(f[j]) # placeKey(f[i])}

\* C26: filteredUnique is the subsequence of filtered that keeps, for each
\* identity key, exactly its first occurrence: its n-th entry is the record at
\* the n-th first-occurrence position of filtered (so the order is the
\* source-data order and every key of filtered is represented by its earliest
\* record).
C26_FirstOccurrenceSubsequence ==
    LET f   == filtered
        fu  == filteredUnique
        idx == firstOccurrences(f)
        nth(n) == CHOOSE i \in idx : Cardinality({j \in idx : j <= i}) = n
    IN /\ Len(fu) = Cardinality(idx)
       /\ \A n \in DOMAIN fu : fu[n] = f[nth(n)]
       /\ \A i \in DOMAIN f : \E n \in DOMAIN fu :
              /\ placeKey(fu[n]) = placeKey(f[i])
              /\ fu[n] = f[CHOOSE j \in idx : placeKey(f[j]) = placeKey(f[i])]

\* two different filtered records share a key and the earlier one was kept
C26_Witness ==
    /\ Len(filtered) = 2
    /\ placeKey(filtered[1]) = placeKey(filtered[2])
    /\ filtered[1] # filtered[2]
    /\ filteredUnique = <<filtered[1]>>

----------------------------------------------------------------------------
(* The active place and the filters *)

\* /data/places_public.json of the selection specification: two records of
\* one identity key (same id, office and address, different organization and
\* coordinates) and a third record that carries both tags
SelectPlaces ==
    << Place(<<"x">>, <<"A", "b">>, <<"c", "D">>, <<"m">>, Num(1), Num(1),
             <<"L", "i", "b", "r", "a", "r", "y">>, << <<"T", " ", "a">> >>),
       Place(<<"x">>, <<"b", "c">>, <<"c", "D">>, <<"m">>, Num(2), Num(2),
             <<"L", "i", "b", "r", "a", "r", "y">>, << <<"B">> >>),
       Place(NullStr, <<"A", "b">>, NullStr, <<"m">>, Num(1), Num(2),
             <<"f", "o", "o", "d", " ", "a", "c", "c", "e", "s", "s">>,
             << <<"T", " ", "a">>, <<"B">> >>) >>

InitSelect ==
    /\ InitLoad
    /\ InitUi
    /\ InitCamera
    /\ InitPopupEffect
    /\ InitPanels
    /\ InitLayoutDefault
    /\ InitDomDefault
    /\ placesData = SelectPlaces
    /\ tagsData = DashboardTags
    /\ hasMapboxToken \in BOOLEAN

SpecSelect == InitSelect /\ [][Next]_vars

\* C27: a click on an individual marker makes active exactly the record the
\* marker was projected from: the record resolved from the clicked key is in
\* the Filtered Result Sequence and has the coordinates of the marker's
\* feature, also when several source records share the key.
C27_ClickResolvesMarkerRecord ==
    [][ MarkerClick =>
          \A ap \in {activePlace'} :
              /\ ap # 0
              /\ \E n \in DOMAIN filteredUnique : filteredUnique[n] = places[ap]
              /\ \E i \in DOMAIN placesGeoJSON :
                     /\ placesGeoJSON[i].pid = activePlaceId'
                     /\ placesGeoJSON[i].coordinates =
                            <<safeNum(places[ap].lng).val, safeNum(places[ap].lat).val>>
      ]_vars

\* C28: in every reachable state a shown popup belongs to a place that is in
\* the current Filtered Result Sequence: no tag toggle, query submission or
\* map move leaves a popup open for a place that no longer passes the filters.
C28_PopupPlaceIsFiltered ==
    popupShown =>
        \E n \in DOMAIN filteredUnique : filteredUnique[n] = places[activePlace]

\* C29: the selected-tag list never holds a tag twice; while the In-View
\* Sequence is non-empty every selected tag is among the displayed tag chips;
\* and toggling one tag twice, starting from the current list, gives back the
\* same set of selected tags.
C29_SelectedTagsToggleable ==
    /\ \A i, j \in DOMAIN selectedTags : i # j => selectedTags[i] # selectedTags[j]
    /\ placesInView # <<>> => Range(selectedTags) \subseteq allTags
    /\ \A t \in allTags \cup Range(selectedTags) :
           Range(toggled(toggled(selectedTags, t), t)) = Range(selectedTags)

\* two tags are selected, places are in view and both chips are displayed
C29_Witness ==
    /\ Len(selectedTags) = 2
    /\ placesInView # <<>>
    /\ Cardinality(allTags) = 2
    /\ mapBounds.known

----------------------------------------------------------------------------
(* The legend *)

\* C21: a step in which the mobile/desktop classification changes ends with
\* the legend in the default of the new class (closed on mobile, open on
\* desktop), whatever it was before; every other step that changes the legend
\* is a click on one of its two buttons, so a manual toggle stays until the
\* classification changes.
C21_LegendResetOnClassChange ==
    [][ /\ isMobile' # isMobile => legendOpen' = ~isMobile'
        /\ (isMobile' = isMobile /\ legendOpen' # legendOpen)
               => (LegendHeaderClick \/ LegendShowClick)
        /\ (ViewportChange /\ isMobile' = isMobile) => legendOpen' = legendOpen
      ]_vars

\* on mobile, where the change of class closed the legend, it was opened again
\* by hand
C21_Witness ==
    /\ isMobile
    /\ legendOpen
    /\ mapShown

----------------------------------------------------------------------------
(* A failed load *)

\* the header line shows "Loading..." instead of the counts
showsLoading == loading

\* C23 as stated: once one of the two fetches has failed the loading flag is
\* true and stays true, and the place collection is empty.
C23_Original ==
    (placesFetch = "rejected" \/ tagsFetch = "rejected") => (loading /\ places = <<>>)

\* C23: after a failed fetch the place collection and the tag guide stay
\* empty and load() never completes; the "Loading..." state lasts only until
\* the catch handler of load() has run, which logs the failure and sets the
\* loading flag to false, so that the header shows the counts of an empty
\* dataset; nothing is logged without a failed load.
C23_FailedLoadEndsLoading ==
    /\ (placesFetch = "rejected" \/ tagsFetch = "rejected")
           => (places = <<>> /\ tagGuide = <<>> /\ loadPc # "done")
    /\ loadPc = "await" => (showsLoading /\ ~errorLogged)
    /\ loadPc = "failed"
           => ( /\ errorLogged
                /\ ~showsLoading
                /\ places = <<>> /\ tagGuide = <<>>
                /\ Len(placesInView) = 0 /\ Len(filteredUnique) = 0 )
    /\ errorLogged => loadPc = "failed"

\* the places fetch delivered a dataset, the tags fetch failed, and the catch
\* handler has run
C23_Witness ==
    /\ placesFetch = "ok"
    /\ placesData # <<>>
    /\ tagsFetch = "rejected"
    /\ loadPc = "failed"
    /\ errorLogged
    /\ ~loading

----------------------------------------------------------------------------
(* The address search: geocodeAndFly and clearNearSearch.  Coordinates of
   geocoding results and of the initial view are in units of 0.0001 degree. *)

\* a message, as one string
Msg(s) == <<s>>

TokenMissingMsg ==
    Msg("Mapbox token missing. Add NEXT_PUBLIC_MAPBOX_TOKEN to .env.local and restart.")

NoResultsMsg == Msg("No results found. Try a different address or ZIP.")

\* requests issued in one behaviour
MaxGeoRequests == 2

\* zoom: 12 of the flyTo of geocodeAndFly, in half levels
geocodeZoom == 24

\* center: [-71.0589, 42.3601] of clearNearSearch
initialCenter == <<0 - 710589, 423601>>

\* values typed into the address input
NearInputs == { <<>>, <<" ">>, <<"0", "2", "1">> }

\* features[0].center of a geocoding response
GeoCenters == { <<0 - 711000, 423700>>, <<0 - 712000, 424000>> }

\* what a geocoding request can end with: a best match, no match, a status
\* that is not ok, a rejected fetch (with or without a message)
GeoResponses ==
    {[kind |-> "ok", center |-> c, msg |-> <<>>] : c \in GeoCenters}
    \cup {[kind |-> "empty", center |-> <<0, 0>>, msg |-> <<>>]}
    \cup {[kind |-> "status", center |-> <<0, 0>>, msg |-> Msg("Geocoding failed: 500")]}
    \cup {[kind |-> "rejected", center |-> <<0, 0>>, msg |-> m] :
              m \in {Msg("Failed to fetch"), <<>>}}

\* the message geocodeAndFly shows for a response that is not a match
geoMessage(r) ==
    IF r.kind = "empty" THEN NoResultsMsg
    ELSE IF r.msg # <<>> THEN r.msg ELSE Msg("Geocoding failed")

\* onChange of the address input
NearType ==
    /\ \E v \in NearInputs : nearQuery' = v
    /\ UNCHANGED <<dataVars, uiVars, hasMapboxToken, camVars, clipVars, layoutVars,
                   errorLogged, legendOpen, nearError, nearLoading, geoPending, geoIssued,
                   feedbackVars>>

\* geocodeAndFly() up to its await: nothing for a blank query, the message
\* for a missing token, otherwise a request is sent
geocodeAndFly ==
    /\ trim(nearQuery) # <<>>
    /\ IF ~hasMapboxToken
       THEN /\ nearError' = TokenMissingMsg
            /\ UNCHANGED <<nearLoading, geoPending, geoIssued>>
       ELSE /\ geoIssued < MaxGeoRequests
            /\ nearLoading' = TRUE
            /\ nearError' = NullStr
            /\ geoIssued' = geoIssued + 1
            /\ geoPending' = Append(geoPending, [id |-> geoIssued + 1, q |-> trim(nearQuery)])
    /\ UNCHANGED <<dataVars, uiVars, hasMapboxToken, camVars, clipVars, layoutVars,
                   errorLogged, legendOpen, nearQuery, feedbackVars>>

\* the Enter key in the address input, whether or not a request is in flight
GeocodeEnter ==
    /\ geocodeAndFly
    /\ nearQuery' = nearQuery

\* the "Near me" button, disabled while nearLoading
GeocodeClick ==
    /\ ~nearLoading
    /\ geocodeAndFly

\* the sequence without its i-th entry
RemoveAt(seq, i) == SubSeq(seq, 1, i - 1) \o SubSeq(seq, i + 1, Len(seq))

\* geocodeAndFly() from its await on, for the i-th request in flight and the
\* response r: fly to the match, or show a message; finally clear nearLoading
GeocodeResolve(i, r) ==
    /\ i \in DOMAIN geoPending
    /\ geoPending' = RemoveAt(geoPending, i)
    /\ IF r.kind = "ok"
       THEN /\ mapCmd' = IF mapShown THEN flyTo(r.center[1], r.center[2], geocodeZoom)
                         ELSE mapCmd
            /\ nearError' = nearError
       ELSE /\ nearError' = geoMessage(r)
            /\ mapCmd' = mapCmd
    /\ nearLoading' = FALSE
    /\ UNCHANGED <<dataVars, uiVars, hasMapboxToken, mapZoom, clipVars, layoutVars,
                   errorLogged, legendOpen, nearQuery, geoIssued, feedbackVars>>

\* the clear button of the address input, rendered while the input holds text
clearNearSearch ==
    /\ nearQuery # <<>>
    /\ nearQuery' = <<>>
    /\ nearError' = NullStr
    /\ mapCmd' = IF mapShown THEN flyTo(initialCenter[1], initialCenter[2], initialZoom)
                 ELSE mapCmd
    /\ UNCHANGED <<dataVars, uiVars, hasMapboxToken, mapZoom, clipVars, layoutVars,
                   errorLogged, legendOpen, nearLoading, geoPending, geoIssued, feedbackVars>>

InitGeocoding ==
    /\ InitLoad
    /\ InitUi
    /\ InitCamera
    /\ InitPopupEffect
    /\ InitPanels
    /\ InitLayoutDefault
    /\ InitDomDefault
    /\ placesData = <<>>
    /\ tagsData = <<>>
    /\ hasMapboxToken \in BOOLEAN

NextGeocoding ==
    \/ NearType
    \/ GeocodeEnter
    \/ GeocodeClick
    \/ \E i \in 1..MaxGeoRequests, r \in GeoResponses : GeocodeResolve(i, r)
    \/ clearNearSearch
    \/ SetViewMode

SpecGeocoding == InitGeocoding /\ [][NextGeocoding]_vars

\* C24: when the last geocoding request in flight resolves, what is visible
\* is the outcome of that request: for a match the map is commanded to fly to
\* it and no error message is shown, otherwise the message of that request is
\* shown; in whatever order the requests were issued.
C24_LastResolvedWins ==
    [][ \A i \in 1..MaxGeoRequests, r \in GeoResponses :
          (GeocodeResolve(i, r) /\ geoPending' = <<>>)
             => IF r.kind = "ok"
                THEN /\ nearError' = NullStr
                     /\ mapShown => mapCmd' = flyTo(r.center[1], r.center[2], geocodeZoom)
                ELSE nearError' = geoMessage(r)
      ]_vars

\* C30: nearLoading is true in every state with a geocoding request in
\* flight, and false when none is in flight.
C30_LoadingWhileOutstanding ==
    /\ geoPending # <<>> => nearLoading
    /\ geoPending = <<>> => ~nearLoading

----------------------------------------------------------------------------
(* The feedback form (src/app/feedback/page.tsx) and its route
   (src/app/api/feedback/route.ts) *)

emptyForm == [category |-> <<>>, name |-> <<>>, email |-> <<>>, comment |-> <<>>]

\* values the visitor can give the four fields
FieldValues ==
    [category |-> { <<>>, Msg("report error") },
     name     |-> { <<>>, <<"n">> },
     email    |-> { <<>>, <<"a", "b">>, <<"a", "@", "b">>, <<"a", "@", "b", ".", "c">> },
     comment  |-> { <<>>, <<"c">> }]

\* /^[^\s@]+@[^\s@]+\.[^\s@]+$/.test(s)
emailRegexTest(s) ==
    /\ \A i \in DOMAIN s : ~IsSpace(s[i])
    /\ \E a \in DOMAIN s :
           /\ s[a] = "@"
           /\ \A i \in DOMAIN s : s[i] = "@" => i = a
           /\ a > 1
           /\ \E d \in DOMAIN s : s[d] = "." /\ d > a + 1 /\ d < Len(s)

\* handleChange: the field takes the value and the error goes away
handleChange(field, value) ==
    /\ formData' = [formData EXCEPT ![field] = value]
    /\ error' = NullStr
    /\ UNCHANGED <<dataVars, uiVars, hasMapboxToken, camVars, clipVars, layoutVars,
                   errorLogged, legendOpen, geoVars, isSubmitting, showSuccessDialog,
                   feedbackFetch>>

\* handleSubmit up to its await; the submit button is disabled while submitting
handleSubmit ==
    /\ ~isSubmitting
    /\ IF \E f \in DOMAIN formData : formData[f] = <<>>
       THEN /\ error' = Msg("Please fill in all fields.")
            /\ UNCHANGED <<isSubmitting, feedbackFetch>>
       ELSE IF ~emailRegexTest(formData.email)
       THEN /\ error' = Msg("Please enter a valid email address.")
            /\ UNCHANGED <<isSubmitting, feedbackFetch>>
       ELSE /\ error' = NullStr
            /\ isSubmitting' = TRUE
            /\ feedbackFetch' = "pending"
    /\ UNCHANGED <<dataVars, uiVars, hasMapboxToken, camVars, clipVars, layoutVars,
                   errorLogged, legendOpen, geoVars, formData, showSuccessDialog>>

\* the error strings POST /api/feedback answers with: missing fields, missing
\* configuration, the store's message or the default for a store failure
routeErrors ==
    { Msg("All fields are required"),
      Msg("Server configuration error. Please contact support."),
      Msg("Failed to save feedback. Please try again."),
      Msg("INVALID_PERMISSIONS") }

\* what the fetch of handleSubmit can end with: the route's 200, one of its
\* error answers, a JSON body without an error string, a body that is no
\* JSON (answered by something in front of the route), a rejected fetch
FeedbackResponses ==
    {[kind |-> "ok", msg |-> NullStr]}
    \cup {[kind |-> "json", msg |-> m] : m \in routeErrors \cup {NullStr, <<>>}}
    \cup {[kind |-> "text", msg |-> Msg("502 Bad Gateway")]}
    \cup {[kind |-> "rejected", msg |-> Msg("Failed to fetch")]}

\* the message of the Error thrown or caught for a response that is not ok
feedbackError(r) ==
    IF r.kind = "json"
    THEN (IF r.msg # NullStr /\ r.msg # <<>> THEN r.msg ELSE Msg("Failed to submit feedback"))
    ELSE IF r.kind = "text" THEN Msg("Server error: ") \o r.msg
    ELSE r.msg

\* mutant of FeedbackResolve: the form is reset whatever the response
FeedbackResolveReset(r) ==
    /\ feedbackFetch = "pending"
    /\ feedbackFetch' = "idle"
    /\ formData' = emptyForm
    /\ IF r.kind = "ok"
       THEN showSuccessDialog' = TRUE /\ error' = error
       ELSE error' = feedbackError(r) /\ showSuccessDialog' = showSuccessDialog
    /\ isSubmitting' = FALSE
    /\ UNCHANGED <<dataVars, uiVars, hasMapboxToken, camVars, clipVars, layoutVars,
                   errorLogged, legendOpen, geoVars>>

\* handleSubmit from its await on, for the response r: reset the form and
\* open the dialog, or show the error; finally clear isSubmitting
FeedbackResolve(r) ==
    /\ feedbackFetch = "pending"
    /\ feedbackFetch' = "idle"
    /\ IF r.kind = "ok"
       THEN /\ formData' = emptyForm
            /\ showSuccessDialog' = TRUE
            /\ error' = error
       ELSE /\ error' = feedbackError(r)
            /\ UNCHANGED <<formData, showSuccessDialog>>
    /\ isSubmitting' = FALSE
    /\ UNCHANGED <<dataVars, uiVars, hasMapboxToken, camVars, clipVars, layoutVars,
                   errorLogged, legendOpen, geoVars>>

\* onOpenChange of the success dialog
SuccessDialogChange ==
    /\ \E open \in BOOLEAN : showSuccessDialog' = open
    /\ UNCHANGED <<dataVars, uiVars, hasMapboxToken, camVars, clipVars, layoutVars,
                   errorLogged, legendOpen, geoVars, formData, isSubmitting, error,
                   feedbackFetch>>

InitFeedbackPage ==
    /\ InitLoad
    /\ InitUi
    /\ InitCamera
    /\ InitPopupEffect
    /\ InitPanels
    /\ InitLayoutDefault
    /\ InitDomDefault
    /\ placesData = <<>>
    /\ tagsData = <<>>
    /\ hasMapboxToken = TRUE

NextFeedback ==
    \/ \E f \in DOMAIN FieldValues : \E v \in FieldValues[f] : handleChange(f, v)
    \/ handleSubmit
    \/ \E r \in FeedbackResponses : FeedbackResolve(r)
    \/ SuccessDialogChange

SpecFeedback == InitFeedbackPage /\ [][NextFeedback]_vars

\* the messages shown when the server provided none
genericFeedbackErrors ==
    { Msg("Failed to submit feedback"), Msg("Server error: ") \o Msg("502 Bad Gateway"),
      Msg("Failed to fetch") }

\* C25: the step that ends a failed submission (a response that is not ok or
\* a rejected fetch) leaves the four fields and the dialog as they are, shows
\* an error (the server's message when it sent one, a generic one otherwise)
\* and clears the submitting flag; a successful one clears the flag too; and
\* the fields are reset to empty only by the step of a successful submission
\* (any other change of the form is the visitor's own edit of one field).
C25_FailureKeepsForm ==
    [][ /\ \A r \in FeedbackResponses :
             FeedbackResolve(r) =>
                /\ isSubmitting' = FALSE
                /\ r.kind # "ok" =>
                      /\ formData' = formData
                      /\ showSuccessDialog' = showSuccessDialog
                      /\ error' # NullStr /\ error' # <<>>
                      /\ (r.kind = "json" /\ r.msg \in routeErrors) => error' = r.msg
                      /\ ~(r.kind = "json" /\ r.msg \in routeErrors)
                             => error' \in genericFeedbackErrors
        /\ formData' # formData =>
              \/ (FeedbackResolve([kind |-> "ok", msg |-> NullStr]) /\ formData' = emptyForm)
              \/ (\E f \in DOMAIN FieldValues : \E v \in FieldValues[f] :
                      handleChange(f, v) /\ isSubmitting' = isSubmitting)
      ]_vars

\* a submission has failed: the server's message is shown, the fields hold
\* what was sent and a new submission is possible
C25_Witness ==
    /\ error \in routeErrors
    /\ \A f \in DOMAIN formData : formData[f] # <<>>
    /\ emailRegexTest(formData.email)
    /\ ~isSubmitting
    /\ feedbackFetch = "idle"

====
